---- MODULE Spec2Model ----
(***************************************************************************)
(* Model of the control plane reconciler of the istio-operator:            *)
(*   ControlPlaneReconciler.Reconcile / handleError / renderCharts         *)
(*   processComponentManifests / processManifests / processObject          *)
(*   postProcessNewComponent / waitForDeployments / waitForDeployment /    *)
(*   waitForWebhookCABundleInitialization / preprocessObject               *)
(*                                                                         *)
(* One pass of Reconcile is a sequence of steps (render, namespace, one    *)
(* step per component, prune, completion).  Each step is the whole of the  *)
(* code it covers, including handleError when the step aborts the pass.    *)
(* The orchestration API is the environment: every call may fail, which    *)
(* is a choice of a set of fault points made by the step that calls it.    *)
(***************************************************************************)
EXTENDS Integers, Sequences, FiniteSets, TLC

VARIABLES
    pc,               \* position of Reconcile: "idle" between passes
    idx,              \* index into orderedComponents of the next component
    doc,              \* the desired-state document of r.Instance (index into Docs)
    generation,       \* r.Instance.GetGeneration()
    renderings,       \* r.renderings
    componentsProcessed, \* componentsProcessed of Reconcile
    instanceStatus,   \* r.Instance.Status, in memory during the pass
    persistedStatus,  \* the status stored by the API server
    Status,           \* r.Status, the new status of the pass
    cluster,          \* live managed objects: ResourceKey -> live object
    nsLabels,         \* labels of the control plane namespace
    result,           \* what Reconcile returned: (reconcile.Result, error)
    log,              \* API calls of the current pass, in order
    order,            \* components handed to processComponentManifests, in order
    last,             \* outcome of the processComponentManifests call the last
                      \* component step began with
    faultsLeft,       \* API failures the environment may still inject
    exit,             \* where Reconcile returned from: "" while it has not
    stored,           \* the status update of the pass that returned did not fail
    quiet             \* the previous pass succeeded fully and nothing changed since

vars == <<pc, idx, doc, generation, renderings, componentsProcessed,
          instanceStatus, persistedStatus, Status, cluster, nsLabels,
          result, log, order, last, faultsLeft, exit, stored, quiet>>

---------------------------------------------------------------------------
(* Bounds *)

MaxGeneration == 2
MaxFaults == 1

---------------------------------------------------------------------------
(* Names.  A component name is the sequence of its "/"-separated segments, *)
(* a manifest name the sequence of its "."-separated segments.             *)

CPNamespace == "istio-system"

Istio          == <<"istio">>
IstioCNI       == <<"istio", "charts", "istio_cni">>
Security       == <<"istio", "charts", "security">>
Prometheus     == <<"istio", "charts", "prometheus">>
Tracing        == <<"istio", "charts", "tracing">>
Galley         == <<"istio", "charts", "galley">>
Mixer          == <<"istio", "charts", "mixer">>
Pilot          == <<"istio", "charts", "pilot">>
Gateways       == <<"istio", "charts", "gateways">>
SidecarInjectorWebhook == <<"istio", "charts", "sidecarInjectorWebhook">>
Grafana        == <<"istio", "charts", "grafana">>
Kiali          == <<"istio", "charts", "kiali">>
CertManager    == <<"istio", "charts", "certmanager">>
NodeAgent      == <<"istio", "charts", "nodeagent">>
ThreeScale     == <<"maistra-threescale">>
ThreeScaleSub  == <<"maistra-threescale", "charts", "apicast">>

orderedComponents ==
    << Istio, IstioCNI, Security, Prometheus, Tracing, Galley, Mixer, Pilot,
       Gateways, SidecarInjectorWebhook, Grafana, Kiali >>

\* strings.HasPrefix(key, "istio/"): the first segment is "istio" and a "/" follows
HasPrefixIstio(name) == Len(name) > 1 /\ name[1] = "istio"

\* strings.HasSuffix(manifest.Name, ".yaml"): the last segment is "yaml" and a "." precedes
HasSuffixYaml(name) == Len(name) > 1 /\ name[Len(name)] = "yaml"

Range(s) == {s[i] : i \in DOMAIN s}

---------------------------------------------------------------------------
(* Resource keys, rendered objects, errors *)

ResourceKey(kind, ns, name) == [kind |-> kind, namespace |-> ns, name |-> name]
NoKey == ResourceKey("", "", "")

\* a rendered document that decodes to one object
Obj(kind, ns, name, spec) ==
    [t |-> "obj", kind |-> kind, namespace |-> ns, name |-> name, spec |-> spec,
     webhooks |-> <<>>, items |-> <<>>]
\* a webhook configuration with one webhook entry whose caBundle is not yet set
Webhook(kind, name, spec) ==
    [t |-> "obj", kind |-> kind, namespace |-> "", name |-> name, spec |-> spec,
     webhooks |-> <<"">>, items |-> <<>>]
\* a rendered document of kind List
ListOf(items) ==
    [t |-> "obj", kind |-> "List", namespace |-> "", name |-> "", spec |-> 0,
     webhooks |-> <<>>, items |-> items]
\* a rendered document that is not valid YAML / does not decode
BadYAML ==
    [t |-> "bad", kind |-> "", namespace |-> "", name |-> "", spec |-> 0,
     webhooks |-> <<>>, items |-> <<>>]

NewResourceKey(obj) == ResourceKey(obj.kind, obj.namespace, obj.name)

Manifest(name, content) == [Name |-> name, Content |-> content]

Err(type, key) == [type |-> type, key |-> key, errs |-> <<>>]
Nil == Err("nil", NoKey)
\* utilerrors.NewAggregate: nil for an empty list, else the list as given
NewAggregate(errs) ==
    IF errs = <<>> THEN Nil ELSE [type |-> "aggregate", key |-> NoKey, errs |-> errs]
ComponentNotReadyError == Err("ComponentNotReadyError", NoKey)
\* err.(ComponentNotReadyError): the dynamic type of err itself
IsComponentNotReady(err) == err.type = "ComponentNotReadyError"

---------------------------------------------------------------------------
(* Status model (package v1; its code is not part of the sources at hand) *)

ConditionStatus == {"True", "False", "Unknown"}

\* v1.NewStatus plus status.Resource = key: no condition set, generation 0.
\* A condition that is absent reads as status Unknown (GetCondition).
NewStatus(key) ==
    [Resource |-> key, ObservedGeneration |-> 0,
     Installed |-> "Unknown", Reconciled |-> "Unknown"]

NewComponentStatus(name) ==
    [Resource |-> name, ObservedGeneration |-> 0,
     Installed |-> "Unknown", Reconciled |-> "Unknown", Resources |-> <<>>]

NewControlPlaneStatus ==
    [ObservedGeneration |-> 0, Installed |-> "Unknown", Reconciled |-> "Unknown",
     ComponentStatus |-> <<>>]

RemoveCondition(status) == [status EXCEPT !.Reconciled = "Unknown"]

\* index of the first entry with that key, 0 when there is none
FindResourceByKey(componentStatus, key) ==
    LET hits == {i \in DOMAIN componentStatus.Resources :
                    componentStatus.Resources[i].Resource = key}
    IN IF hits = {} THEN 0 ELSE CHOOSE i \in hits : \A j \in hits : i <= j

FindComponentByName(status, name) ==
    LET hits == {i \in DOMAIN status.ComponentStatus :
                    status.ComponentStatus[i].Resource = name}
    IN IF hits = {} THEN 0 ELSE CHOOSE i \in hits : \A j \in hits : i <= j

FindResourcesOfKind(componentStatus, kind) ==
    LET OfKind(e) == e.Resource.kind = kind
    IN SelectSeq(componentStatus.Resources, OfKind)

\* success: Installed and Reconciled become True; failure: Reconciled becomes
\* False, and Installed becomes False when the thing was never installed
updateReconcileStatus(status, err) ==
    IF err = Nil
    THEN [status EXCEPT !.Installed = "True", !.Reconciled = "True"]
    ELSE [status EXCEPT !.Installed = IF @ = "Unknown" THEN "False" ELSE @,
                        !.Reconciled = "False"]

IsNotFound(err) == err.type = "NotFound"

\* success (not-found counts as success): no longer installed; failure: Reconciled False
updateDeleteStatus(status, err) ==
    IF err = Nil \/ IsNotFound(err)
    THEN [status EXCEPT !.Installed = "False", !.Reconciled = "True"]
    ELSE [status EXCEPT !.Reconciled = "False"]

---------------------------------------------------------------------------
(* The orchestration API *)

Fault(op, key) == [op |-> op, key |-> key]

Call(op, key, comp) == [op |-> op, key |-> key, comp |-> comp]

WriteOps == {"create", "patch", "delete", "updateNamespace"}

\* an owner reference on every object
OwnerRefsAlways(obj) == TRUE

\* the owner reference is set when the object is in the namespace of the
\* control plane
OwnerRefs(obj) == obj.namespace = CPNamespace

\* the fields of a live object that the reconciler sets
Desired(obj) ==
    [spec |-> obj.spec,
     ownerRef |-> OwnerRefs(obj),
     ownerLabel |-> CPNamespace,
     meshGeneration |-> generation]

Managed(live) ==
    [spec |-> live.spec, ownerRef |-> live.ownerRef,
     ownerLabel |-> live.ownerLabel, meshGeneration |-> live.meshGeneration]

\* r.Client.Create: a new object has no ready replica yet
Created(obj) ==
    [spec |-> obj.spec,
     ownerRef |-> OwnerRefs(obj),
     ownerLabel |-> CPNamespace,
     meshGeneration |-> generation,
     readyReplicas |-> 0,
     webhooks |-> obj.webhooks]

\* patch.Apply: the managed fields take the desired values
Patched(live, obj) ==
    [live EXCEPT !.spec = obj.spec,
                 !.ownerRef = OwnerRefs(obj),
                 !.ownerLabel = CPNamespace,
                 !.meshGeneration = generation]

\* a patch factory that always finds a patch
PatchAlways(live, obj) == TRUE

\* r.PatchFactory.CreatePatch: nil (no patch) when nothing differs
PatchNeeded(live, obj) == Managed(live) # Desired(obj)

Remove(cl, key) == [k \in DOMAIN cl \ {key} |-> cl[k]]

---------------------------------------------------------------------------
(* Hooks (hooks.go) *)

\* preprocessObject: only these objects have a patcher, which may fail
HasPreprocessor(obj) ==
    \/ obj.kind = "Kiali"
    \/ obj.kind = "ConfigMap" /\ obj.name = "istio-grafana"
    \/ obj.kind = "Secret" /\ obj.name = "prometheus-htpasswd"

preprocessObject(obj, faults) ==
    IF HasPreprocessor(obj) /\ Fault("preprocess", NewResourceKey(obj)) \in faults
    THEN Err("preprocess", NewResourceKey(obj))
    ELSE Nil

\* a check that takes an object that cannot be fetched as not ready yet
waitForDeploymentRetry(key, cl, faults, comp) ==
    [log |-> <<Call("hookGet", key, comp)>>,
     err |-> IF Fault("hookGet", key) \in faults \/ key \notin DOMAIN cl
             THEN ComponentNotReadyError
             ELSE IF cl[key].readyReplicas > 0 THEN Nil ELSE ComponentNotReadyError]

\* waitForDeployment: one Get, then status.readyReplicas > 0.
\* Returns the error and the call made.
waitForDeployment(key, cl, faults, comp) ==
    [log |-> <<Call("hookGet", key, comp)>>,
     err |-> IF Fault("hookGet", key) \in faults \/ key \notin DOMAIN cl
             THEN Err("hookGet", key)
             ELSE IF cl[key].readyReplicas > 0 THEN Nil ELSE ComponentNotReadyError]

\* a check that looks at the first webhook entry only
waitForWebhookCABundleFirstEntry(key, cl, faults, comp) ==
    [log |-> <<Call("hookGet", key, comp)>>,
     err |-> IF Fault("hookGet", key) \in faults \/ key \notin DOMAIN cl
             THEN Err("hookGet", key)
             ELSE IF Len(cl[key].webhooks) = 0 THEN Nil
             ELSE IF cl[key].webhooks[1] = "" THEN ComponentNotReadyError
                  ELSE Nil]

\* waitForWebhookCABundleInitialization: one Get, then every webhook entry
\* must have a non-empty clientConfig.caBundle
waitForWebhookCABundleInitialization(key, cl, faults, comp) ==
    [log |-> <<Call("hookGet", key, comp)>>,
     err |-> IF Fault("hookGet", key) \in faults \/ key \notin DOMAIN cl
             THEN Err("hookGet", key)
             ELSE IF Len(cl[key].webhooks) = 0 THEN Nil
             ELSE IF \E i \in DOMAIN cl[key].webhooks : cl[key].webhooks[i] = ""
                  THEN ComponentNotReadyError
                  ELSE Nil]

\* the resources of the given kind whose Installed condition is True
InstalledOfKind(status, kind) ==
    LET IsInstalled(e) == e.Installed = "True"
    IN SelectSeq(FindResourcesOfKind(status, kind), IsInstalled)

\* run the checks of a list of [check, key] in order, stop at the first error
RECURSIVE RunChecks(_, _, _, _, _)
RunChecks(checks, cl, faults, comp, acc) ==
    IF checks = <<>> THEN [log |-> acc, err |-> Nil]
    ELSE LET c == Head(checks)
             r == IF c.check = "deployment"
                  THEN waitForDeployment(c.key, cl, faults, comp)
                  ELSE waitForWebhookCABundleInitialization(c.key, cl, faults, comp)
         IN IF r.err # Nil
            THEN [log |-> acc \o r.log, err |-> r.err]
            ELSE RunChecks(Tail(checks), cl, faults, comp, acc \o r.log)

ChecksOf(status, kind, check) ==
    LET s == InstalledOfKind(status, kind)
    IN [i \in DOMAIN s |-> [check |-> check, key |-> s[i].Resource]]

\* waitForDeployments: StatefulSets, then Deployments, then DeploymentConfigs
DeploymentChecks(status) ==
    ChecksOf(status, "StatefulSet", "deployment")
    \o ChecksOf(status, "Deployment", "deployment")
    \o ChecksOf(status, "DeploymentConfig", "deployment")

waitForDeployments(status, cl, faults, comp) ==
    RunChecks(DeploymentChecks(status), cl, faults, comp, <<>>)

postProcessNewComponent(name, status, cl, faults) ==
    IF name = Galley
    THEN RunChecks(DeploymentChecks(status)
                   \o ChecksOf(status, "ValidatingWebhookConfiguration", "webhook"),
                   cl, faults, name, <<>>)
    ELSE IF name = SidecarInjectorWebhook
    THEN RunChecks(ChecksOf(status, "MutatingWebhookConfiguration", "webhook")
                   \o DeploymentChecks(status),
                   cl, faults, name, <<>>)
    ELSE waitForDeployments(status, cl, faults, name)

---------------------------------------------------------------------------
(* Manifest processing (manifestprocessing.go) *)

\* The entries of the new status are pointers: an entry found in the old
\* status is shared by every rendering of the same key (ref = its index in
\* the old status), a fresh entry (ref = 0) belongs to one rendering.
\* Writing through a pointer changes every entry that shares it.
SetStatus(res, pos, ref, st) ==
    [i \in DOMAIN res |->
        IF i = pos \/ (ref # 0 /\ res[i].ref = ref)
        THEN [res[i] EXCEPT !.st = st] ELSE res[i]]

\* what the pointer into the old status currently points at
Deref(res, oldStatus, ref) ==
    LET hits == {i \in DOMAIN res : res[i].ref = ref}
    IN IF hits = {} THEN oldStatus.Resources[ref]
       ELSE res[CHOOSE i \in hits : TRUE].st

\* the tail of processObject: updateReconcileStatus(status, err); return err
Finish(w, pos, ref, st, err) ==
    [w EXCEPT !.res = SetStatus(@, pos, ref, updateReconcileStatus(st, err)),
              !.err = err]

\* allErrors = append(allErrors, err) when err is not nil
Collect(w) == [w EXCEPT !.errs = IF w.err # Nil THEN Append(@, w.err) ELSE @]

\* the end of a List: its items' errors aggregated are the error of the List
CloseList(w, allErrors) == [w EXCEPT !.err = NewAggregate(w.errs), !.errs = allErrors]

RECURSIVE processObject(_, _, _, _, _)
RECURSIVE processItems(_, _, _, _, _)

\* processObject past the List case, for a status entry st0 that is fresh
\* (ref = 0) or found in the old status at index ref
reconcileObject(w, obj, key, ref, st0, faults, comp) ==
    LET pos == Len(w.res) + 1
        w1  == [w EXCEPT !.seen = @ \cup {key},
                         !.res = Append(@, [st |-> st0, ref |-> ref])]
        got == [w1 EXCEPT !.log = Append(@, Call("get", key, comp))]
    IN
    IF preprocessObject(obj, faults) # Nil
    THEN Finish(w1, pos, ref, st0, preprocessObject(obj, faults))
    ELSE IF Fault("get", key) \in faults
    THEN Finish(got, pos, ref, st0, Err("get", key))
    ELSE IF key \notin DOMAIN w.cluster
    THEN \* not found: create
         IF Fault("create", key) \in faults
         THEN Finish([got EXCEPT !.log = Append(@, Call("create", key, comp))],
                     pos, ref, st0, Err("create", key))
         ELSE Finish([got EXCEPT !.log = Append(@, Call("create", key, comp)),
                                 !.cluster = (key :> Created(obj)) @@ @],
                     pos, ref, [st0 EXCEPT !.ObservedGeneration = 1], Nil)
    ELSE \* found: patch when needed
         IF ~PatchNeeded(w.cluster[key], obj)
         THEN Finish(got, pos, ref, st0, Nil)
         ELSE IF Fault("patch", key) \in faults
         THEN Finish([got EXCEPT !.log = Append(@, Call("patch", key, comp))],
                     pos, ref, RemoveCondition(st0), Err("patch", key))
         ELSE Finish([got EXCEPT !.log = Append(@, Call("patch", key, comp)),
                                 !.cluster[key] = Patched(@, obj)],
                     pos, ref, RemoveCondition(st0), Nil)

\* the status entry of a key: the one of the old status, else a new one
StatusOf(w, oldStatus, key, ref) ==
    IF ref = 0 THEN NewStatus(key) ELSE Deref(w.res, oldStatus, ref)

processObject(w, obj, oldStatus, faults, comp) ==
    IF obj.kind = "List"
    THEN CloseList(processItems([w EXCEPT !.errs = <<>>], obj.items, oldStatus, faults, comp),
                   w.errs)
    ELSE reconcileObject(w, obj, NewResourceKey(obj),
                         FindResourceByKey(oldStatus, NewResourceKey(obj)),
                         StatusOf(w, oldStatus, NewResourceKey(obj),
                                  FindResourceByKey(oldStatus, NewResourceKey(obj))),
                         faults, comp)

\* the items of a List, each processed
processItems(w, items, oldStatus, faults, comp) ==
    IF items = <<>> THEN w
    ELSE processItems(Collect(processObject(w, Head(items), oldStatus, faults, comp)),
                      Tail(items), oldStatus, faults, comp)

\* the rendered documents of the manifests that are processed, in order
RECURSIVE Documents(_)
Documents(manifests) ==
    IF manifests = <<>> THEN <<>>
    ELSE (IF HasSuffixYaml(Head(manifests).Name) THEN Head(manifests).Content ELSE <<>>)
         \o Documents(Tail(manifests))

\* a loop over the objects that stops at the first one that does not parse
RECURSIVE processDocumentsFailFast(_, _, _, _, _)
processDocumentsFailFast(w, docs, oldStatus, faults, comp) ==
    IF docs = <<>> THEN w
    ELSE IF Head(docs).t = "bad"
    THEN [w EXCEPT !.errs = Append(@, Err("parse", NoKey))]
    ELSE processDocumentsFailFast(Collect(processObject(w, Head(docs), oldStatus, faults, comp)),
                                  Tail(docs), oldStatus, faults, comp)

\* the loop over the objects of the manifests
RECURSIVE processDocuments(_, _, _, _, _)
processDocuments(w, docs, oldStatus, faults, comp) ==
    IF docs = <<>> THEN w
    ELSE IF Head(docs).t = "bad"
    THEN processDocuments([w EXCEPT !.errs = Append(@, Err("parse", NoKey))],
                          Tail(docs), oldStatus, faults, comp)
    ELSE processDocuments(Collect(processObject(w, Head(docs), oldStatus, faults, comp)),
                          Tail(docs), oldStatus, faults, comp)

\* r.Client.Delete of one resource
DeleteErr(key, cl, faults) ==
    IF Fault("delete", key) \in faults THEN Err("delete", key)
    ELSE IF key \notin DOMAIN cl THEN Err("NotFound", key)
    ELSE Nil

\* the deletion of one resource of the old status that was not rendered
deleteResource(w, index, status, err, comp) ==
    [w EXCEPT
        !.log = Append(@, Call("delete", status.Resource, comp)),
        !.res = Append(@, [st |-> IF err = Nil \/ IsNotFound(err)
                                  THEN [updateDeleteStatus(status, err)
                                            EXCEPT !.ObservedGeneration = 0]
                                  ELSE updateDeleteStatus(status, err),
                           ref |-> index]),
        !.cluster = IF err = Nil THEN Remove(@, status.Resource) ELSE @,
        !.errs = IF err = Nil \/ IsNotFound(err) THEN @ ELSE Append(@, err)]

\* deletions that do not look at what the pass has rendered
RECURSIVE processDeletionsAll(_, _, _, _, _)
processDeletionsAll(w, index, oldStatus, faults, comp) ==
    IF index = 0 THEN w
    ELSE IF oldStatus.Resources[index].Installed = "False"
    THEN processDeletionsAll(w, index - 1, oldStatus, faults, comp)
    ELSE processDeletionsAll(
            deleteResource(w, index, oldStatus.Resources[index],
                           DeleteErr(oldStatus.Resources[index].Resource, w.cluster, faults),
                           comp),
            index - 1, oldStatus, faults, comp)

\* deletions that walk the old resources from the first to the last
RECURSIVE processDeletionsForward(_, _, _, _, _)
processDeletionsForward(w, index, oldStatus, faults, comp) ==
    IF index = 0 THEN w
    ELSE LET before == processDeletionsForward(w, index - 1, oldStatus, faults, comp)
         IN IF \/ oldStatus.Resources[index].Resource \in w.seen
               \/ oldStatus.Resources[index].Installed = "False"
            THEN before
            ELSE deleteResource(before, index, oldStatus.Resources[index],
                                DeleteErr(oldStatus.Resources[index].Resource,
                                          before.cluster, faults),
                                comp)

\* handle deletions: the old resources from the last to the first
RECURSIVE processDeletions(_, _, _, _, _)
processDeletions(w, index, oldStatus, faults, comp) ==
    IF index = 0 THEN w
    ELSE IF \/ oldStatus.Resources[index].Resource \in w.seen
            \/ oldStatus.Resources[index].Installed = "False"
    THEN processDeletions(w, index - 1, oldStatus, faults, comp)
    ELSE processDeletions(
            deleteResource(w, index, oldStatus.Resources[index],
                           DeleteErr(oldStatus.Resources[index].Resource, w.cluster, faults),
                           comp),
            index - 1, oldStatus, faults, comp)

\* the end of processManifests: the status of the component from the error
manifestsResult(w, err, manifests, oldStatus) ==
    [status |-> IF Len(manifests) > 0
                THEN updateReconcileStatus(
                        [oldStatus EXCEPT !.Resources = [i \in DOMAIN w.res |-> w.res[i].st]],
                        err)
                ELSE updateDeleteStatus(
                        [oldStatus EXCEPT !.Resources = [i \in DOMAIN w.res |-> w.res[i].st]],
                        err),
     err |-> err, cluster |-> w.cluster, log |-> w.log]

aggregateResult(w, manifests, oldStatus) ==
    manifestsResult(w, NewAggregate(w.errs), manifests, oldStatus)

NewWork(cl) ==
    [cluster |-> cl, res |-> <<>>, seen |-> {}, log |-> <<>>, err |-> Nil, errs |-> <<>>]

\* processManifests: the new component status, the aggregate error, the
\* cluster afterwards and the calls made
processManifests(manifests, oldStatus, cl, faults, comp) ==
    aggregateResult(
        processDeletions(
            processDocuments(NewWork(cl), Documents(manifests), oldStatus, faults, comp),
            Len(oldStatus.Resources), oldStatus, faults, comp),
        manifests, oldStatus)

---------------------------------------------------------------------------
(* processComponentManifests *)

NoStep == [comp |-> <<>>, ran |-> FALSE, agg |-> Nil, hook |-> Nil, ret |-> Nil,
           faults |-> {}, hookCalls |-> 0, status |-> NewComponentStatus(<<>>)]

\* an end of processComponentManifests that appends the status of the
\* component whatever the hook returned
componentResultAlways(componentName, inst, pm, hook, faults) ==
    [ret |-> IF hook.err # Nil THEN hook.err ELSE pm.err,
     Status |-> [Status EXCEPT !.ComponentStatus = Append(@, pm.status)],
     instanceStatus |-> inst,
     cluster |-> pm.cluster,
     log |-> pm.log \o hook.log,
     last |-> [comp |-> componentName, ran |-> TRUE, agg |-> pm.err,
               hook |-> hook.err, ret |-> IF hook.err # Nil THEN hook.err ELSE pm.err,
               faults |-> faults, hookCalls |-> hook.calls, status |-> pm.status]]

\* the end of processComponentManifests, from what the hook returned
componentResult(componentName, inst, pm, hook, faults) ==
    [ret |-> IF hook.err # Nil THEN hook.err ELSE pm.err,
     Status |-> IF hook.err # Nil THEN Status
                ELSE [Status EXCEPT !.ComponentStatus = Append(@, pm.status)],
     instanceStatus |-> inst,
     cluster |-> pm.cluster,
     log |-> pm.log \o hook.log,
     last |-> [comp |-> componentName, ran |-> TRUE, agg |-> pm.err,
               hook |-> hook.err, ret |-> IF hook.err # Nil THEN hook.err ELSE pm.err,
               faults |-> faults, hookCalls |-> hook.calls, status |-> pm.status]]

\* one invocation of the readiness hook of the component
Invoked(hook) == [log |-> hook.log, err |-> hook.err, calls |-> 1]

\* status.ObservedGeneration = r.Instance.GetGeneration(), then the hook
postProcess(componentName, inst, pm, faults) ==
    componentResult(componentName, inst, pm,
        Invoked(postProcessNewComponent(componentName, pm.status, pm.cluster, faults)),
        faults)

StampGeneration(pm) == [pm EXCEPT !.status.ObservedGeneration = generation]

\* processComponentManifests for a component with renderings, whose status
\* is entry `found` of r.Instance.Status (0: none).  The status found loses
\* its Reconciled condition; the entries of its resources are only read
\* through their keys and, for the ones not rendered, their Installed condition.
reconcileComponent(componentName, found, status, faults) ==
    postProcess(componentName,
        IF found = 0 THEN instanceStatus
        ELSE [instanceStatus EXCEPT !.ComponentStatus[found] = status],
        StampGeneration(
            processManifests(renderings[componentName], status, cluster, faults, componentName)),
        faults)

OldComponentStatus(componentName, found) ==
    IF found = 0 THEN NewComponentStatus(componentName)
    ELSE RemoveCondition(instanceStatus.ComponentStatus[found])

processComponentManifests(componentName, faults) ==
    IF componentName \notin DOMAIN renderings
    THEN [ret |-> Nil, Status |-> Status, instanceStatus |-> instanceStatus,
          cluster |-> cluster, log |-> <<>>,
          last |-> [NoStep EXCEPT !.comp = componentName]]
    ELSE reconcileComponent(componentName,
            FindComponentByName(instanceStatus, componentName),
            OldComponentStatus(componentName,
                FindComponentByName(instanceStatus, componentName)),
            faults)

---------------------------------------------------------------------------
(* handleError, and the persistence of the status *)

RequeueSeconds == 5

NoRequeue(err) == [Requeue |-> FALSE, RequeueAfter |-> 0, err |-> err]
RequeueAfter5s == [Requeue |-> TRUE, RequeueAfter |-> RequeueSeconds, err |-> Nil]
Pending == NoRequeue(Err("pending", NoKey))

StatusKey == ResourceKey("ServiceMeshControlPlane", CPNamespace, "status")
NamespaceKey == ResourceKey("Namespace", "", CPNamespace)
Orchestrator == <<"reconcile">>

\* r.UpdateStatus / r.Client.Status().Update: stores r.Instance.Status unless it fails
UpdateStatus(newStatus, ok) == IF ok THEN newStatus ELSE persistedStatus

\* a handleError without the test of the type of the error
handleErrorVerbatim(err) == NoRequeue(err)

\* what handleError returns
handleErrorResult(err) ==
    IF IsComponentNotReady(err) THEN RequeueAfter5s ELSE NoRequeue(err)

\* the status handleError writes to r.Status and r.Instance.Status
handleErrorStatus(st, err) ==
    updateReconcileStatus([st EXCEPT !.ObservedGeneration = generation], err)

\* a handleError that returns the error of the status update when there is one
handleErrorPersistFirst(st, err, ok) ==
    [Status |-> handleErrorStatus(st, err),
     instanceStatus |-> handleErrorStatus(st, err),
     persistedStatus |-> UpdateStatus(handleErrorStatus(st, err), ok),
     result |-> IF ok THEN handleErrorResult(err)
                ELSE NoRequeue(Err("updateStatus", StatusKey))]

handleError(st, err, ok) ==
    [Status |-> handleErrorStatus(st, err),
     instanceStatus |-> handleErrorStatus(st, err),
     persistedStatus |-> UpdateStatus(handleErrorStatus(st, err), ok),
     result |-> handleErrorResult(err)]

---------------------------------------------------------------------------
(* Desired-state documents and what the charts render for them *)

citadel    == Obj("Deployment", CPNamespace, "istio-citadel", 1)
role       == Obj("ClusterRole", "", "istio-citadel", 1)
kialiCR    == Obj("Kiali", CPNamespace, "kiali", 1)
certDep    == Obj("Deployment", CPNamespace, "certmanager", 1)
nodeCM     == Obj("ConfigMap", CPNamespace, "nodeagent", 1)
tsDep      == Obj("Deployment", CPNamespace, "3scale-istio-adapter", 1)
apicast    == Obj("ConfigMap", CPNamespace, "apicast", 1)
galleyDep  == Obj("Deployment", CPNamespace, "istio-galley", 1)
galleyVWC  == Webhook("ValidatingWebhookConfiguration", "istio-galley", 1)
galleyCM   == Obj("ConfigMap", CPNamespace, "istio-galley", 1)
galleySvc  == Obj("Service", CPNamespace, "istio-galley", 1)

Yaml(base, content) == Manifest(<<base, "yaml">>, content)
Notes(content)      == Manifest(<<"NOTES", "txt">>, content)

NoRenderings == [n \in {} |-> <<>>]

Docs ==
    << \* a healthy control plane with two components outside the fixed order
       [istio |-> (Security :> <<Yaml("citadel", <<citadel, role>>)>>)
                  @@ (CertManager :> <<Yaml("certmanager", <<certDep>>)>>)
                  @@ (NodeAgent :> <<Yaml("nodeagent", <<nodeCM>>)>>),
        threeScaleEnabled |-> TRUE,
        threeScale |-> (ThreeScale :> <<Yaml("adapter", <<tsDep>>)>>)
                       @@ (ThreeScaleSub :> <<Yaml("apicast", <<apicast>>)>>)],
       \* a document one of whose manifests holds an undecodable object
       [istio |-> (Security :> <<Yaml("citadel", <<BadYAML, citadel>>),
                                 Notes(<<nodeCM>>),
                                 Yaml("role", <<role>>)>>)
                  @@ (Kiali :> <<Yaml("kiali", <<kialiCR>>)>>),
        threeScaleEnabled |-> FALSE,
        threeScale |-> NoRenderings],
       \* the certificate authority without its ClusterRole, and a first
       \* version of galley
       [istio |-> (Security :> <<Yaml("citadel", <<citadel>>)>>)
                  @@ (Galley :> <<Yaml("galley", <<galleyCM, galleySvc>>)>>),
        threeScaleEnabled |-> FALSE,
        threeScale |-> NoRenderings],
       \* galley as a webhook component that renders a List, and one object
       \* twice; its first version's objects and the certificate authority are gone
       [istio |-> (Galley :> <<Yaml("galley", <<ListOf(<<galleyDep, galleyVWC>>)>>),
                               Yaml("deployment", <<galleyDep>>)>>),
        threeScaleEnabled |-> FALSE,
        threeScale |-> NoRenderings] >>

\* renderCharts, past its error check: the 3scale renderings are merged over
\* the istio renderings when 3scale is enabled
Rendered(d) ==
    IF Docs[d].threeScaleEnabled THEN Docs[d].threeScale @@ Docs[d].istio
    ELSE Docs[d].istio

---------------------------------------------------------------------------
(* Fault points of a step *)

RECURSIVE Flatten(_)
Flatten(objs) ==
    IF objs = <<>> THEN <<>>
    ELSE (IF Head(objs).t = "bad" THEN <<>>
          ELSE IF Head(objs).kind = "List" THEN Flatten(Head(objs).items)
          ELSE <<Head(objs)>>) \o Flatten(Tail(objs))

DeploymentKinds == {"StatefulSet", "Deployment", "DeploymentConfig"}
WebhookKinds == {"ValidatingWebhookConfiguration", "MutatingWebhookConfiguration"}

\* the calls of a component's processing that may fail
ComponentFaultPoints(name) ==
    IF name \notin DOMAIN renderings THEN {}
    ELSE
    LET objs == Range(Flatten(Documents(renderings[name])))
        found == FindComponentByName(instanceStatus, name)
        old == IF found = 0 THEN {}
               ELSE {e.Resource : e \in Range(instanceStatus.ComponentStatus[found].Resources)}
    IN {Fault(op, NewResourceKey(o)) : op \in {"get", "create", "patch"}, o \in objs}
       \cup {Fault("preprocess", NewResourceKey(o)) : o \in {x \in objs : HasPreprocessor(x)}}
       \cup {Fault("hookGet", NewResourceKey(o)) :
                o \in {x \in objs : x.kind \in DeploymentKinds \cup WebhookKinds}}
       \cup {Fault("delete", k) : k \in old}

\* the sets of at most n of the given fault points
RECURSIVE Plans(_, _)
Plans(points, n) ==
    IF n = 0 THEN {{}}
    ELSE LET smaller == Plans(points, n - 1)
         IN smaller \cup {s \cup {p} : s \in smaller, p \in points}

\* the single errors an error is made of
RECURSIVE Leaves(_)
Leaves(err) ==
    IF err = Nil THEN {}
    ELSE IF err.type = "aggregate" THEN UNION {Leaves(err.errs[i]) : i \in DOMAIN err.errs}
    ELSE {err}

\* the fault points whose failure is among the given errors.  A step takes
\* only fault sets all of whose failures happened: a call that was not made
\* did not fail.
Fired(errors) == {Fault(e.type, e.key) : e \in UNION {Leaves(x) : x \in errors}}

---------------------------------------------------------------------------
(* Reconcile *)

DocIds == DOMAIN Docs

RightLabels == [ignore |-> "ignore", memberOf |-> CPNamespace]
NoLabels    == [ignore |-> "", memberOf |-> ""]

Init ==
    /\ pc = "idle"
    /\ idx = 1
    /\ doc \in DocIds
    /\ generation = 1
    /\ renderings = NoRenderings
    /\ componentsProcessed = {}
    /\ instanceStatus = NewControlPlaneStatus
    /\ persistedStatus = NewControlPlaneStatus
    /\ Status = NewControlPlaneStatus
    /\ cluster = [k \in {} |-> 0]
    /\ nsLabels = NoLabels
    /\ result = Pending
    /\ log = <<>>
    /\ order = <<>>
    /\ last = NoStep
    /\ faultsLeft = MaxFaults
    /\ exit = ""
    /\ stored = TRUE
    /\ quiet = FALSE

PersistCall == Call("updateStatus", StatusKey, Orchestrator)

\* a reconciler that never sees an error
FailedNever(err) == FALSE

\* if err != nil { return r.handleError(err) }
Failed(err) == err # Nil

\* an end of a pass that stores the status before the calls of its last step
AbortPersistFirst(st, err, calls, from) ==
    \E ok \in BOOLEAN :
    \E h \in {handleError(st, err, ok)} :
       /\ Status' = h.Status
       /\ instanceStatus' = h.instanceStatus
       /\ persistedStatus' = h.persistedStatus
       /\ result' = h.result
       /\ log' = log \o <<PersistCall>> \o calls
       /\ pc' = "done"
       /\ exit' = from
       /\ stored' = ok
       /\ quiet' = FALSE

\* the end of a pass through handleError
Abort(st, err, calls, from) ==
    \E ok \in BOOLEAN :
    \E h \in {handleError(st, err, ok)} :
       /\ Status' = h.Status
       /\ instanceStatus' = h.instanceStatus
       /\ persistedStatus' = h.persistedStatus
       /\ result' = h.result
       /\ log' = log \o calls \o <<PersistCall>>
       /\ pc' = "done"
       /\ exit' = from
       /\ stored' = ok
       /\ quiet' = FALSE

\* renderCharts: the errors of the chart renderer, aggregated
renderCharts(faults) ==
    NewAggregate([i \in 1..Cardinality(faults) |-> Err("render", NoKey)])

\* a render failure that asks for a retry
renderErrorRetry(err) == [Requeue |-> TRUE, RequeueAfter |-> RequeueSeconds, err |-> Nil]

\* return reconcile.Result{}, err
renderErrorResult(err) == NoRequeue(err)

\* Reconcile from its start to the end of renderCharts.  The caller hands
\* in the instance as stored and a new, empty r.Status.
Render ==
    /\ pc = "idle"
    /\ \E faults \in Plans({Fault("render", NoKey)}, IF faultsLeft > 0 THEN 1 ELSE 0),
          ok \in BOOLEAN :
        LET inst == RemoveCondition(persistedStatus)
            err == renderCharts(faults)
            failed == updateReconcileStatus(inst, err)
        IN /\ faultsLeft' = faultsLeft - Cardinality(faults)
           /\ Status' = NewControlPlaneStatus
           /\ componentsProcessed' = {}
           /\ order' = <<>>
           /\ last' = NoStep
           /\ idx' = 1
           /\ IF Failed(err)
              THEN /\ instanceStatus' = failed
                   /\ persistedStatus' = UpdateStatus(failed, ok)
                   /\ result' = renderErrorResult(err)
                   /\ log' = <<PersistCall>>
                   /\ pc' = "done"
                   /\ exit' = "render"
                   /\ stored' = ok
                   /\ quiet' = FALSE
                   /\ UNCHANGED renderings
              ELSE /\ ok
                   /\ instanceStatus' = inst
                   /\ renderings' = Rendered(doc)
                   /\ result' = Pending
                   /\ log' = <<>>
                   /\ pc' = "namespace"
                   /\ UNCHANGED <<persistedStatus, exit, stored, quiet>>
    /\ UNCHANGED <<doc, generation, cluster, nsLabels>>

GetNamespace == Call("get", NamespaceKey, Orchestrator)
UpdateNamespace == Call("updateNamespace", NamespaceKey, Orchestrator)

\* the namespace labels, and the common data of the pass
Namespace ==
    /\ pc = "namespace"
    /\ \E faults \in Plans({Fault("get", NamespaceKey)}
                           \cup (IF nsLabels # RightLabels
                                 THEN {Fault("updateNamespace", NamespaceKey)} ELSE {}),
                           faultsLeft) :
           /\ faultsLeft' = faultsLeft - Cardinality(faults)
           /\ IF Fault("get", NamespaceKey) \in faults
              THEN /\ faults = {Fault("get", NamespaceKey)}
                   /\ Abort(Status, Err("get", NamespaceKey), <<GetNamespace>>, "namespace")
                   /\ UNCHANGED nsLabels
              ELSE /\ nsLabels' = IF faults # {} THEN nsLabels ELSE RightLabels
                   /\ log' = log \o <<GetNamespace>>
                                 \o (IF nsLabels # RightLabels THEN <<UpdateNamespace>> ELSE <<>>)
                   /\ pc' = "ordered"
                   /\ UNCHANGED <<Status, instanceStatus, persistedStatus, result, exit, stored, quiet>>
    /\ UNCHANGED <<idx, doc, generation, renderings, componentsProcessed, cluster,
                   order, last>>

\* the components of the fixed order from index i on that render nothing:
\* processComponentManifests returns nil for them at once, and the loop goes on
RECURSIVE Skipped(_)
Skipped(i) ==
    IF i > Len(orderedComponents) \/ orderedComponents[i] \in DOMAIN renderings
    THEN <<>>
    ELSE <<orderedComponents[i]>> \o Skipped(i + 1)

\* one call of processComponentManifests and the error check that follows
\* it; when it returns nil, the loop goes on through `skipped`
Component(name, skipped, next, nextIdx) ==
    \E faults \in Plans(ComponentFaultPoints(name), faultsLeft) :
        \E out \in {processComponentManifests(name, faults)} :
           /\ faults \subseteq Fired({out.last.agg, out.last.hook})
           /\ faultsLeft' = faultsLeft - Cardinality(faults)
           /\ cluster' = out.cluster
           /\ IF Failed(out.ret)
              THEN /\ Abort(out.Status, out.ret, out.log, "component")
                   /\ componentsProcessed' = componentsProcessed \cup {name}
                   /\ order' = Append(order, name)
                   /\ last' = out.last
                   /\ UNCHANGED idx
              ELSE /\ Status' = out.Status
                   /\ instanceStatus' = out.instanceStatus
                   /\ log' = log \o out.log
                   /\ componentsProcessed' = componentsProcessed \cup {name} \cup Range(skipped)
                   /\ order' = Append(order, name) \o skipped
                   /\ last' = out.last
                   /\ pc' = next
                   /\ idx' = nextIdx
                   /\ UNCHANGED <<persistedStatus, result, exit, stored, quiet>>
           /\ UNCHANGED <<doc, generation, renderings, nsLabels>>

\* the components that have to be installed in the specified order
Ordered ==
    /\ pc = "ordered"
    /\ \E skipped \in {Skipped(idx + 1)} :
        Component(orderedComponents[idx], skipped,
                  IF idx + Len(skipped) = Len(orderedComponents) THEN "other" ELSE "ordered",
                  IF idx + Len(skipped) = Len(orderedComponents) THEN idx
                  ELSE idx + Len(skipped) + 1)

\* a loop over r.renderings without the test of the prefix
RemainingAnyPrefix == {key \in DOMAIN renderings : key \notin componentsProcessed}

\* the keys the loop over r.renderings still has to process
Remaining == {key \in DOMAIN renderings :
                 HasPrefixIstio(key) /\ key \notin componentsProcessed}

\* other components: the iteration order of the map is not specified
Other ==
    /\ pc = "other"
    /\ \E key \in Remaining : Component(key, <<>>, "other", idx)

\* install 3scale
ThreeScaleStep ==
    /\ pc = "other"
    /\ Remaining = {}
    /\ Component(ThreeScale, <<>>, "prune", idx)

RECURSIVE SetToSeq(_)
SetToSeq(S) ==
    IF S = {} THEN <<>>
    ELSE LET x == CHOOSE y \in S : TRUE IN <<x>> \o SetToSeq(S \ {x})

\* the live objects that carry the owner label of this control plane and the
\* generation annotation of another generation
Stale(cl) ==
    {k \in DOMAIN cl : cl[k].ownerLabel = CPNamespace /\ cl[k].meshGeneration # generation}

Pruner == <<"prune">>

\* r.prune(generation): delete what the current generation did not touch
prune(cl, faults) ==
    LET stale == SetToSeq(Stale(cl))
        failed == SelectSeq(stale, LAMBDA k : Fault("delete", k) \in faults)
    IN [cluster |-> [k \in {x \in DOMAIN cl : x \notin Stale(cl) \/ Fault("delete", x) \in faults}
                        |-> cl[k]],
        log |-> [i \in DOMAIN stale |-> Call("delete", stale[i], Pruner)],
        err |-> NewAggregate([i \in DOMAIN failed |-> Err("delete", failed[i])])]

\* a completion that does not stamp the generation
completeStatusUnstamped(st) == updateReconcileStatus(st, Nil)

\* r.Status.ObservedGeneration = r.Instance.GetGeneration(), then
\* updateReconcileStatus(&r.Status.StatusType, err) with the nil error of prune
completeStatus(st) ==
    updateReconcileStatus([st EXCEPT !.ObservedGeneration = generation], Nil)

\* what Reconcile returns after a successful prune: the error of the status
\* update when there is one, as err is nil
completeResult(ok) == NoRequeue(IF ok THEN Nil ELSE Err("updateStatus", StatusKey))

\* the lines of Reconcile after a successful prune
Complete(calls) ==
    \E ok \in BOOLEAN :
    \E s \in {completeStatus(Status)} :
       /\ Status' = s
       /\ instanceStatus' = s
       /\ persistedStatus' = UpdateStatus(s, ok)
       /\ result' = completeResult(ok)
       /\ log' = log \o calls \o <<PersistCall>>
       /\ pc' = "done"
       /\ exit' = "complete"
       /\ stored' = ok
       /\ quiet' = ok

\* delete unseen components, then the end of Reconcile
PruneAndComplete ==
    /\ pc = "prune"
    /\ \E faults \in Plans({Fault("delete", k) : k \in Stale(cluster)}, faultsLeft) :
        \E p \in {prune(cluster, faults)} :
           /\ faultsLeft' = faultsLeft - Cardinality(faults)
           /\ cluster' = p.cluster
           /\ IF Failed(p.err)
              THEN Abort(Status, p.err, p.log, "prune")
              ELSE Complete(p.log)
    /\ UNCHANGED <<idx, doc, generation, renderings, componentsProcessed, nsLabels,
                   order, last>>

\* Reconcile has returned: the reconciler and its records of the pass are
\* dropped, the next pass starts from what is stored
Return ==
    /\ pc = "done"
    /\ pc' = "idle"
    /\ idx' = 1
    /\ renderings' = NoRenderings
    /\ componentsProcessed' = {}
    /\ instanceStatus' = NewControlPlaneStatus
    /\ Status' = NewControlPlaneStatus
    /\ result' = Pending
    /\ log' = <<>>
    /\ order' = <<>>
    /\ last' = NoStep
    /\ exit' = ""
    /\ stored' = TRUE
    /\ UNCHANGED <<doc, generation, persistedStatus, cluster, nsLabels, quiet, faultsLeft>>

---------------------------------------------------------------------------
(* The environment.  Its steps are taken between passes: a change of an     *)
(* object during a pass is seen by the pass only in the step of the        *)
(* component that owns the object, as if it had happened before the pass.  *)

\* a workload controller reports a ready replica
DeploymentReady ==
    /\ pc = "idle"
    /\ \E k \in DOMAIN cluster :
        /\ k.kind \in DeploymentKinds
        /\ cluster[k].readyReplicas = 0
        /\ cluster' = [cluster EXCEPT ![k].readyReplicas = 1]
    /\ quiet' = FALSE
    /\ UNCHANGED <<pc, idx, doc, generation, renderings, componentsProcessed,
                   instanceStatus, persistedStatus, Status, nsLabels, result, log,
                   order, last, faultsLeft, exit, stored>>

\* the certificate authority fills in the caBundle of every webhook entry
CABundleInjected ==
    /\ pc = "idle"
    /\ \E k \in DOMAIN cluster :
        /\ \E i \in DOMAIN cluster[k].webhooks : cluster[k].webhooks[i] = ""
        /\ cluster' = [cluster EXCEPT ![k].webhooks = [i \in DOMAIN @ |-> "ca"]]
    /\ quiet' = FALSE
    /\ UNCHANGED <<pc, idx, doc, generation, renderings, componentsProcessed,
                   instanceStatus, persistedStatus, Status, nsLabels, result, log,
                   order, last, faultsLeft, exit, stored>>

\* the user edits the desired-state document: the documents follow one
\* another in the order of Docs, starting from any of them
UpdateSpec ==
    /\ pc = "idle"
    /\ generation < MaxGeneration
    /\ doc' = (doc % Len(Docs)) + 1
    /\ generation' = generation + 1
    /\ quiet' = FALSE
    /\ UNCHANGED <<pc, idx, renderings, componentsProcessed, instanceStatus,
                   persistedStatus, Status, cluster, nsLabels, result, log, order,
                   last, faultsLeft, exit, stored>>

Next ==
    \/ Render
    \/ Namespace
    \/ Ordered
    \/ Other
    \/ ThreeScaleStep
    \/ PruneAndComplete
    \/ Return
    \/ DeploymentReady
    \/ CABundleInjected
    \/ UpdateSpec

Spec == Init /\ [][Next]_vars

---------------------------------------------------------------------------
(* The readiness hooks on their own: postProcessNewComponent applied to a   *)
(* component status and a cluster drawn from small sets.                    *)

\* one name for each branch of the switch of postProcessNewComponent
HookComponents == {Galley, SidecarInjectorWebhook, Security}

\* the resources of the component status, in the order of their entries
HookResources ==
    << ResourceKey("Deployment", CPNamespace, "b"),
       ResourceKey("ValidatingWebhookConfiguration", "", "v"),
       ResourceKey("StatefulSet", CPNamespace, "s"),
       ResourceKey("MutatingWebhookConfiguration", "", "m"),
       ResourceKey("Deployment", CPNamespace, "a"),
       ResourceKey("DeploymentConfig", CPNamespace, "c") >>

\* a live object as the hooks read it: its ready replicas and its webhooks
Live(replicas, webhooks) ==
    [spec |-> 1, ownerRef |-> FALSE, ownerLabel |-> CPNamespace, meshGeneration |-> 1,
     readyReplicas |-> replicas, webhooks |-> webhooks]

\* the states of a live workload and of a live webhook configuration
LiveWorkloads == {Live(0, <<>>), Live(1, <<>>)}
LiveWebhooks  == {Live(0, <<>>), Live(0, <<"">>), Live(0, <<"ca">>), Live(0, <<"ca", "">>)}

\* the clusters the hooks are applied to: a workload may be missing
HookClusters ==
    UNION {[present -> LiveWorkloads \cup LiveWebhooks] :
              present \in {S \in SUBSET Range(HookResources) :
                              \A k \in Range(HookResources) :
                                  k.kind \in WebhookKinds => k \in S}}

HookCluster(cl) ==
    \A k \in DOMAIN cl :
        IF k.kind \in WebhookKinds THEN cl[k] \in LiveWebhooks
        ELSE cl[k] \in LiveWorkloads

\* a component status whose resources are HookResources with the given
\* Installed conditions
HookStatus(name, installed) ==
    [NewComponentStatus(name) EXCEPT
        !.Resources = [i \in DOMAIN HookResources |->
                          [NewStatus(HookResources[i]) EXCEPT !.Installed = installed[i]]]]

HookFaultPoints == {Fault("hookGet", k) : k \in Range(HookResources)}

HookInit ==
    /\ pc = "hook"
    /\ \E name \in HookComponents :
       \E installed \in [DOMAIN HookResources -> {"True", "False"}] :
          /\ last = [NoStep EXCEPT !.comp = name]
          /\ Status = [NewControlPlaneStatus EXCEPT
                          !.ComponentStatus = <<HookStatus(name, installed)>>]
    /\ cluster \in {cl \in HookClusters : HookCluster(cl)}
    /\ idx = 1
    /\ doc = 1
    /\ generation = 1
    /\ renderings = NoRenderings
    /\ componentsProcessed = {}
    /\ instanceStatus = NewControlPlaneStatus
    /\ persistedStatus = NewControlPlaneStatus
    /\ nsLabels = NoLabels
    /\ result = Pending
    /\ log = <<>>
    /\ order = <<>>
    /\ faultsLeft = MaxFaults
    /\ exit = ""
    /\ stored = TRUE
    /\ quiet = FALSE

\* one call of postProcessNewComponent
HookRun ==
    /\ pc = "hook"
    /\ \E faults \in Plans(HookFaultPoints, faultsLeft) :
       \E hook \in {Invoked(postProcessNewComponent(last.comp, Status.ComponentStatus[1],
                                                    cluster, faults))} :
          /\ faults \subseteq Fired({hook.err})
          /\ faultsLeft' = faultsLeft - Cardinality(faults)
          /\ log' = hook.log
          /\ last' = [last EXCEPT !.ran = TRUE, !.hook = hook.err, !.ret = hook.err,
                                  !.faults = faults, !.hookCalls = hook.calls]
    /\ pc' = "checked"
    /\ UNCHANGED <<idx, doc, generation, renderings, componentsProcessed, instanceStatus,
                   persistedStatus, Status, cluster, nsLabels, result, order, exit,
                   stored, quiet>>

HookNext == HookRun

HookSpec == HookInit /\ [][HookNext]_vars

---------------------------------------------------------------------------
(* Properties *)

ObjectOps == {"get", "create", "patch", "delete"}

\* the keys of the objects a component renders
ObjectKeys(c) == {NewResourceKey(o) : o \in Range(Flatten(Documents(renderings[c])))}

\* the calls of the pass made so far
Calls == Range(log)

\* the number of single errors an error holds, an aggregate holding those
\* of its entries
RECURSIVE Sum(_, _)
RECURSIVE NumEntries(_, _)
Sum(errs, types) ==
    IF errs = <<>> THEN 0 ELSE NumEntries(Head(errs), types) + Sum(Tail(errs), types)
NumEntries(err, types) ==
    IF err = Nil THEN 0
    ELSE IF err.type = "aggregate" THEN Sum(err.errs, types)
    ELSE IF err.type \in types THEN 1 ELSE 0

ObjectErrors == {"preprocess", "get", "create", "patch"}

\* C1: once processComponentManifests has returned an error for a component,
\* the pass is over with that component as the last one processed: no call
\* of the pass is made for a component that was not processed, and no get,
\* create, patch or delete is issued for an object of a rendered component
\* that was not processed; the pruner does not run either.
C1_FailFast ==
    (last.ran /\ last.ret # Nil) =>
        /\ pc = "done"
        /\ exit = "component"
        /\ order # <<>>
        /\ order[Len(order)] = last.comp
        /\ \A c \in Calls : c.comp \in Range(order) \cup {Orchestrator}
        /\ \A n \in DOMAIN renderings \ Range(order) :
              \A c \in Calls : c.op \in ObjectOps => c.key \notin ObjectKeys(n)

\* C1 case: the security component fails while the kiali component, which
\* comes later in the fixed order and is rendered, is left unprocessed
C1_Witness ==
    /\ pc = "done"
    /\ last.ran /\ last.ret # Nil
    /\ last.comp = Security
    /\ Kiali \in DOMAIN renderings
    /\ Kiali \notin Range(order)

\* C2 (as amended): in a pass in which no component fails, by the time the
\* pruner is due the components of the fixed list were processed in list
\* order, then every other rendered name that begins with "istio/", then
\* maistra-threescale, last; nothing is processed twice, and a rendered
\* name is left unprocessed exactly when it is not in the fixed list, does
\* not begin with "istio/" and is not maistra-threescale.
C2_Sequence ==
    pc = "prune" =>
        /\ Len(order) > Len(orderedComponents)
        /\ SubSeq(order, 1, Len(orderedComponents)) = orderedComponents
        /\ order[Len(order)] = ThreeScale
        /\ {order[i] : i \in (Len(orderedComponents) + 1) .. (Len(order) - 1)}
              = {n \in DOMAIN renderings : HasPrefixIstio(n)} \ Range(orderedComponents)
        /\ \A i, j \in DOMAIN order : order[i] = order[j] => i = j
        /\ \A n \in DOMAIN renderings :
              n \notin Range(order) <=>
                 (~HasPrefixIstio(n) /\ n \notin Range(orderedComponents) /\ n # ThreeScale)

\* C2 case: a pass of the first document, which renders components outside
\* the fixed list with and without the "istio/" prefix, reaches the pruner
C2_Witness ==
    /\ pc = "prune"
    /\ CertManager \in Range(order)
    /\ NodeAgent \in Range(order)
    /\ ThreeScaleSub \in DOMAIN renderings

\* C2 as stated: in a pass in which no component fails the fixed list is
\* processed in list order, then the remaining rendered names, then
\* maistra-threescale; every rendered name is processed exactly once.
C2_Original ==
    pc = "prune" =>
        /\ SubSeq(order, 1, Len(orderedComponents)) = orderedComponents
        /\ order[Len(order)] = ThreeScale
        /\ \A n \in DOMAIN renderings : Cardinality({i \in DOMAIN order : order[i] = n}) = 1
        /\ \A i, j \in DOMAIN order : order[i] = order[j] => i = j

\* C3: when Reconcile has returned, it has returned a nil error with a
\* request to be run again after 5 seconds if the readiness hook of a
\* component returned ComponentNotReadyError, and no such request otherwise.
C3_Requeue ==
    pc = "done" =>
        IF last.ran /\ IsComponentNotReady(last.hook)
        THEN result = [Requeue |-> TRUE, RequeueAfter |-> 5, err |-> Nil]
        ELSE ~result.Requeue /\ result.RequeueAfter = 0

\* C3 case: a pass ended by a Deployment without a ready replica
C3_Witness ==
    /\ pc = "done"
    /\ last.ran /\ IsComponentNotReady(last.hook)
    /\ \E k \in DOMAIN cluster : k.kind = "Deployment" /\ cluster[k].readyReplicas = 0
    /\ result.Requeue

\* C4 as stated: a pass aborted by ComponentNotReadyError hands a status to
\* the API server whose Reconciled condition is not False.
C4_NotMarkedFailed ==
    (pc = "done" /\ last.ran /\ IsComponentNotReady(last.hook)) =>
        instanceStatus.Reconciled # "False"

\* C5 as stated: when an object or a deletion of a component has failed,
\* Reconcile returns the aggregate error of that component, without a
\* request to be run again, and the Reconciled condition is False.
C5_ObjectErrorsReturned ==
    (pc = "done" /\ last.ran /\ last.agg # Nil) =>
        /\ result = [Requeue |-> FALSE, RequeueAfter |-> 0, err |-> last.agg]
        /\ instanceStatus.Reconciled = "False"

\* C6 as stated: a pass that completes after a pass that completed, with
\* the same document and no change of the cluster in between, issues no
\* create, patch or delete and stores the status the first one stored.
C6_Idempotent ==
    [][(pc = "prune" /\ pc' = "done" /\ quiet /\ quiet') =>
          /\ \A i \in DOMAIN log' : log'[i].op \notin {"create", "patch", "delete"}
          /\ persistedStatus' = persistedStatus]_vars

\* C7 as stated: during a pass, once a component that renders nothing has
\* been processed, a delete has been issued on its behalf for every
\* resource the prior status attributes to it as not uninstalled.
C7_DeletionBranch ==
    pc \in {"ordered", "other", "prune"} =>
        \A n \in componentsProcessed \ DOMAIN renderings :
            \A i \in DOMAIN instanceStatus.ComponentStatus :
                instanceStatus.ComponentStatus[i].Resource = n =>
                    \A j \in DOMAIN instanceStatus.ComponentStatus[i].Resources :
                        LET e == instanceStatus.ComponentStatus[i].Resources[j]
                        IN e.Installed # "False" => Call("delete", e.Resource, n) \in Calls

\* the rendered objects of the component processed last, in order
LastObjects == Flatten(Documents(renderings[last.comp]))

\* the number of its rendered documents that do not parse
LastUnparsed ==
    Cardinality({i \in DOMAIN Documents(renderings[last.comp]) :
                    Documents(renderings[last.comp])[i].t = "bad"})

\* the rendered object at index i of LastObjects met a failing call
FailedAt(i) ==
    \E f \in last.faults : f.op \in ObjectErrors /\ f.key = NewResourceKey(LastObjects[i])

\* C8: after the processing of a rendered component, every rendered object
\* that parsed and did not itself meet a failure was looked up and is live
\* with the desired content, whatever happened to the other objects, and
\* the aggregate error of the component holds one entry for each object
\* that did not parse and one for each object that met a failure.
C8_Containment ==
    last.ran =>
        /\ \A i \in DOMAIN LastObjects :
              ~FailedAt(i) =>
                 /\ Call("get", NewResourceKey(LastObjects[i]), last.comp) \in Calls
                 /\ NewResourceKey(LastObjects[i]) \in DOMAIN cluster
                 /\ Managed(cluster[NewResourceKey(LastObjects[i])]) = Desired(LastObjects[i])
        /\ NumEntries(last.agg, ObjectErrors \cup {"parse"})
              = LastUnparsed + Cardinality({i \in DOMAIN LastObjects : FailedAt(i)})

\* C8 case: the security component of the second document, one of whose
\* objects does not parse and whose Deployment cannot be created: the
\* ClusterRole of a later manifest is created, the aggregate has two entries
C8_Witness ==
    /\ pc = "done"
    /\ last.ran /\ last.comp = Security
    /\ LastUnparsed = 1
    /\ Fault("create", NewResourceKey(citadel)) \in last.faults
    /\ NewResourceKey(role) \in DOMAIN cluster
    /\ NumEntries(last.agg, ObjectErrors \cup {"parse"}) = 2

\* C9: when Reconcile has returned because the rendering failed, it has
\* returned the error of the rendering without a request to be run again,
\* no component was processed, and the pass issued no update of the
\* namespace and no create, patch or delete.
C9_RenderFatal ==
    exit = "render" =>
        /\ result = [Requeue |-> FALSE, RequeueAfter |-> 0,
                     err |-> NewAggregate(<<Err("render", NoKey)>>)]
        /\ order = <<>>
        /\ \A c \in Calls : c.op \notin WriteOps

\* C9 case: the rendering fails while managed objects are live
C9_Witness ==
    /\ pc = "done"
    /\ exit = "render"
    /\ result.err # Nil
    /\ DOMAIN cluster # {}

\* C10 as stated: when the read of the namespace has failed, or the update
\* of its labels has failed (the update was issued and the labels are not
\* the right ones), the pass is over, no component was processed, no
\* managed object was created, patched or deleted, and the error is returned.
C10_NamespaceFatal ==
    (\/ exit = "namespace"
     \/ (UpdateNamespace \in Calls /\ nsLabels # RightLabels)) =>
        /\ pc = "done"
        /\ exit = "namespace"
        /\ order = <<>>
        /\ \A c \in Calls : c.op \notin {"create", "patch", "delete"}
        /\ result.err # Nil
        /\ ~result.Requeue

\* what Reconcile returns for the error that ended the pass
Outcome(err) ==
    IF err.type = "ComponentNotReadyError"
    THEN [Requeue |-> TRUE, RequeueAfter |-> 5, err |-> Nil]
    ELSE [Requeue |-> FALSE, RequeueAfter |-> 0, err |-> err]

\* the result of a pass that ended in an error, which does not depend on
\* whether the status update failed
AbortOutcome ==
    /\ exit = "render" => result = Outcome(NewAggregate(<<Err("render", NoKey)>>))
    /\ exit = "namespace" => result = Outcome(Err("get", NamespaceKey))
    /\ exit = "component" => last.ret # Nil /\ result = Outcome(last.ret)
    /\ exit = "prune" =>
          /\ ~result.Requeue /\ result.RequeueAfter = 0
          /\ result.err.type = "aggregate"
          /\ \A i \in DOMAIN result.err.errs : result.err.errs[i].type = "delete"

\* C11 (as amended): when Reconcile has returned from a pass that ended in
\* an error, its result is the one that error determines, whether or not the
\* status update failed: the error of the status update never replaces the
\* error of the pass or the request to run again.  From a pass that
\* succeeded it returns a nil error if the status update succeeded and the
\* error of the status update, with no request to run again, if it failed.
C11_PersistLogged ==
    pc = "done" =>
        /\ AbortOutcome
        /\ exit = "complete" =>
              result = [Requeue |-> FALSE, RequeueAfter |-> 0,
                        err |-> IF stored THEN Nil ELSE Err("updateStatus", StatusKey)]

\* C11 case: the status update fails at the end of a pass that a component
\* which is not ready has ended
C11_Witness ==
    /\ pc = "done"
    /\ ~stored
    /\ exit = "component"
    /\ last.ret.type = "ComponentNotReadyError"
    /\ result.Requeue

\* C11 as stated: whatever way the pass ended, Reconcile returns what it
\* would have returned had the status update succeeded; after a pass that
\* succeeded this is a nil error.
C11_Original ==
    pc = "done" =>
        /\ AbortOutcome
        /\ exit = "complete" => result = [Requeue |-> FALSE, RequeueAfter |-> 0, err |-> Nil]

\* the processing of the object with key k by component c met a failing call
FailedIn(c, k) ==
    c = last.comp /\ \E f \in last.faults : f.op \in ObjectErrors /\ f.key = k

\* C12: every live managed object carries the ownership label of the
\* control plane, and carries the owner reference exactly when it is in the
\* namespace of the control plane (an object of another namespace or of no
\* namespace never does); every object of a component processed in the pass
\* that is live and met no failure carries the generation of the pass.
C12_OwnerAndGeneration ==
    /\ \A k \in DOMAIN cluster :
          /\ cluster[k].ownerLabel = CPNamespace
          /\ cluster[k].ownerRef <=> (k.namespace = CPNamespace)
    /\ \A c \in Range(order) \cap DOMAIN renderings :
          \A k \in ObjectKeys(c) :
              (k \in DOMAIN cluster /\ ~FailedIn(c, k)) =>
                  cluster[k].meshGeneration = generation

\* C12 case: the second generation has patched the cluster-scoped
\* ClusterRole, which has no owner reference, and the Deployment of the
\* same component, which has one
C12_Witness ==
    /\ generation = 2
    /\ Security \in Range(order)
    /\ NewResourceKey(role) \in DOMAIN cluster
    /\ NewResourceKey(citadel) \in DOMAIN cluster
    /\ ~cluster[NewResourceKey(role)].ownerRef
    /\ cluster[NewResourceKey(role)].meshGeneration = 2
    /\ cluster[NewResourceKey(citadel)].ownerRef
    /\ Call("patch", NewResourceKey(role), Security) \in Calls

\* the names of the component statuses of a status, in order
ComponentNames(st) == [i \in DOMAIN st.ComponentStatus |-> st.ComponentStatus[i].Resource]

\* the components processed in the pass that had renderings, in order
ProcessedRendered == SelectSeq(order, LAMBDA n : n \in DOMAIN renderings)

\* the rendering, the labels of the namespace, every component and the
\* pruner have succeeded
FullSuccess == pc = "done" /\ exit = "complete" /\ nsLabels = RightLabels

\* what the claim C13 concludes of a status and of the result
SuccessReported(st) ==
    /\ st.ObservedGeneration = generation
    /\ st.Reconciled = "True"
    /\ ComponentNames(st) = ProcessedRendered
    /\ result = [Requeue |-> FALSE, RequeueAfter |-> 0, err |-> Nil]

ObjectCallsOf(calls, c) ==
    SelectSeq(calls, LAMBDA x : x.comp = c /\ x.op \in ObjectOps)

\* the keys deleted by a sequence of calls, in the order of the calls
DeletedKeys(calls) ==
    LET dels == SelectSeq(calls, LAMBDA x : x.op = "delete")
    IN [i \in DOMAIN dels |-> dels[i].key]

\* the resources of the status a component had before its step
PriorResources(st, c) ==
    IF FindComponentByName(st, c) = 0 THEN <<>>
    ELSE st.ComponentStatus[FindComponentByName(st, c)].Resources

\* the keys of the entries of a prior status that have to be deleted: those
\* not rendered whose Installed condition is not False, from the last entry
\* to the first
DueKeys(prior, rendered) ==
    LET due == SelectSeq(prior, LAMBDA e : e.Resource \notin rendered
                                           /\ e.Installed # "False")
    IN [i \in DOMAIN due |-> due[Len(due) + 1 - i].Resource]

\* the deletions of a sequence of calls are those due, in their order, and no
\* other call on an object follows a deletion
PrunedInOrder(calls, prior, rendered) ==
    /\ DeletedKeys(calls) = DueKeys(prior, rendered)
    /\ \A i, j \in DOMAIN calls :
          (i < j /\ calls[i].op = "delete") => calls[j].op = "delete"

\* C14: in the step that processes a component, a delete is issued for
\* exactly those entries of the prior status of the component whose key was
\* not rendered in the pass and whose Installed condition is not False; the
\* deletes come after every call made for the rendered objects, and in the
\* reverse of the order the entries have in the prior status.
C14_PruneOrder ==
    [][(Len(order') > Len(order) /\ last'.ran) =>
          PrunedInOrder(ObjectCallsOf(SubSeq(log', Len(log) + 1, Len(log')), last'.comp),
                        PriorResources(instanceStatus, last'.comp),
                        ObjectKeys(last'.comp))]_vars

\* C14 case: Galley, whose prior status holds the config map and then the
\* service, renders neither any more: after the calls for the deployment it
\* renders, the service is deleted and then the config map
C14_Witness ==
    \E i, j, k \in DOMAIN log :
        /\ i < j /\ j < k
        /\ log[i] = Call("create", NewResourceKey(galleyDep), Galley)
        /\ log[j] = Call("delete", NewResourceKey(galleySvc), Galley)
        /\ log[k] = Call("delete", NewResourceKey(galleyCM), Galley)

\* the status holds, under the component, an entry for the key
Tracked(st, c, key) ==
    \E i \in DOMAIN st.ComponentStatus :
        /\ st.ComponentStatus[i].Resource = c
        /\ \E j \in DOMAIN st.ComponentStatus[i].Resources :
              st.ComponentStatus[i].Resources[j].Resource = key

\* the deletions that failed in the last step of a component
FailedDeletes == {f \in last.faults : f.op = "delete"}

\* C15: when the delete of a resource that is not rendered any more fails
\* with an error other than not-found, the error is in the aggregate error of
\* the component and the entry of the resource is in the status stored at the
\* end of the pass, from which the next pass issues the delete again.
C15_DeleteRetried ==
    (pc = "done" /\ exit = "component" /\ last.ran) =>
        \A f \in FailedDeletes :
            /\ NumEntries(last.agg, {"delete"}) >= 1
            /\ Tracked(persistedStatus, last.comp, f.key)

\* C16: the entry of an object that has been rendered and given a status
\* entry is in the status stored after every later pass in which the object
\* is still rendered, whether the pass succeeds, fails or ends not ready.
C16_EntriesKept ==
    [][(pc # "done" /\ pc' = "done" /\ exit' # "render") =>
          \A c \in DOMAIN renderings :
              \A k \in ObjectKeys(c) :
                  Tracked(persistedStatus, c, k) => Tracked(persistedStatus', c, k)]_vars

\* the resources of a component status hold no key twice
NoDuplicateKeys(componentStatus) ==
    \A i, j \in DOMAIN componentStatus.Resources :
        componentStatus.Resources[i].Resource = componentStatus.Resources[j].Resource
            => i = j

\* C17: no component status that processManifests has produced and the pass
\* has appended to its status holds two entries with the same resource key.
C17_NoDuplicates ==
    \A i \in DOMAIN Status.ComponentStatus : NoDuplicateKeys(Status.ComponentStatus[i])

\* C18: in the step of a component the readiness hook is invoked only if
\* processManifests has returned no error, and then once.
C18_HookAfterSuccess ==
    last.ran => last.hookCalls = (IF last.agg = Nil THEN 1 ELSE 0)

\* the component status that the readiness hook was applied to on its own
HookedStatus == Status.ComponentStatus[1]

\* the kind of webhook configuration a webhook component waits for
WebhookKindOf(name) ==
    IF name = Galley THEN "ValidatingWebhookConfiguration"
    ELSE "MutatingWebhookConfiguration"

\* C19: for Galley and for the sidecar injector webhook, every webhook
\* configuration of the component whose Installed condition is True is
\* checked before any StatefulSet, Deployment or DeploymentConfig is fetched.
C19_WebhookFirst ==
    (pc = "checked" /\ last.comp \in {Galley, SidecarInjectorWebhook}) =>
        \A i \in DOMAIN log :
            log[i].key.kind \in DeploymentKinds =>
                \A e \in Range(HookedStatus.Resources) :
                    (e.Resource.kind = WebhookKindOf(last.comp) /\ e.Installed = "True")
                        => \E j \in 1..(i - 1) : log[j].key = e.Resource

\* the keys of the entries of a kind whose Installed condition is True
InstalledKeys(kind) ==
    LET hits == SelectSeq(HookedStatus.Resources,
                          LAMBDA e : e.Resource.kind = kind /\ e.Installed = "True")
    IN [i \in DOMAIN hits |-> hits[i].Resource]

\* the workloads the default hook has to fetch, in its order
Workloads ==
    InstalledKeys("StatefulSet") \o InstalledKeys("Deployment")
        \o InstalledKeys("DeploymentConfig")

\* the fetch of the object fails, or the object is not there
Unfetchable(k) == Fault("hookGet", k) \in last.faults \/ k \notin DOMAIN cluster

\* the object cannot be fetched or reports no ready replica
Lacking(k) == Unfetchable(k) \/ cluster[k].readyReplicas = 0

\* the index of the first workload found lacking, 0 when there is none
FirstLacking ==
    LET hits == {i \in DOMAIN Workloads : Lacking(Workloads[i])}
    IN IF hits = {} THEN 0 ELSE CHOOSE i \in hits : \A j \in hits : i <= j

\* what the default hook has fetched and returned, given the index of the
\* first workload found lacking
DefaultHookDid(n) ==
    /\ [i \in DOMAIN log |-> log[i].key]
          = (IF n = 0 THEN Workloads ELSE SubSeq(Workloads, 1, n))
    /\ \A i \in DOMAIN log : log[i].op = "hookGet"
    /\ last.hook = Nil <=> n = 0
    /\ n # 0 =>
          IF Unfetchable(Workloads[n])
          THEN last.hook # Nil /\ ~IsComponentNotReady(last.hook)
          ELSE last.hook = ComponentNotReadyError

\* C20: the default readiness hook fetches the StatefulSets, Deployments and
\* DeploymentConfigs of the component whose Installed condition is True, and
\* no other object, up to the first one found lacking; it returns nil exactly
\* when each of them is fetched and reports a ready replica, it returns
\* ComponentNotReadyError when the first one found lacking is fetched and
\* reports none, and an error that is not ComponentNotReadyError when the
\* first one found lacking cannot be fetched, not-found included.
C20_DefaultHook ==
    (pc = "checked" /\ last.comp = Security) => DefaultHookDid(FirstLacking)

\* C20 case: the hook fetches a StatefulSet and a Deployment that are ready
\* and then a workload that is live and reports no ready replica
C20_Witness ==
    /\ pc = "checked" /\ last.comp = Security
    /\ Len(log) >= 3
    /\ log[1].key.kind = "StatefulSet"
    /\ log[Len(log)].key \in DOMAIN cluster
    /\ IsComponentNotReady(last.hook)

\* the call at position i of the log checks a webhook configuration
WebhookCheckAt(i) == log[i].key.kind \in WebhookKinds

\* every entry of the webhooks of the live object has a bundle: true of an
\* object with no entry
BundlesSet(k) == \A n \in DOMAIN cluster[k].webhooks : cluster[k].webhooks[n] # ""

\* what the check made by the call at position i has returned: the hook stops
\* at the first error, so a check that is followed by another has returned
\* nil, and the last one has returned what the hook has returned
CheckResult(i) == IF i < Len(log) THEN Nil ELSE last.hook

\* C21: the check of a webhook configuration returns nil exactly when the
\* configuration is fetched and has no webhook entry or a bundle in every
\* entry; it returns ComponentNotReadyError when it is fetched and an entry
\* has no bundle, and an error that is not ComponentNotReadyError when the
\* fetch fails.
C21_CABundle ==
    pc = "checked" =>
        \A i \in DOMAIN log :
            WebhookCheckAt(i) =>
                IF Unfetchable(log[i].key)
                THEN CheckResult(i) # Nil /\ ~IsComponentNotReady(CheckResult(i))
                ELSE IF BundlesSet(log[i].key)
                THEN CheckResult(i) = Nil
                ELSE CheckResult(i) = ComponentNotReadyError

\* C21 case: a webhook configuration is fetched whose first entry has a
\* bundle and whose second entry has none, and the check answers not ready
C21_Witness ==
    /\ pc = "checked"
    /\ Len(log) >= 1
    /\ WebhookCheckAt(Len(log))
    /\ ~Unfetchable(log[Len(log)].key)
    /\ cluster[log[Len(log)].key].webhooks = <<"ca", "">>
    /\ IsComponentNotReady(last.hook)

\* the objects a component renders, those of a List in the place of the List
RenderedObjects(c) == Flatten(Documents(renderings[c]))

\* the calls a sequence of calls holds for the rendered objects of a component
ReconcileCallsOf(calls, c) ==
    SelectSeq(calls, LAMBDA x : x.comp = c /\ x.op \in {"get", "create", "patch"})

\* what processObject has to do with the rendered object at index n, the
\* cluster being cl before the step: "skip" when its pre-process hook fails,
\* "lost" when its fetch fails, "create" when it is not found, "patch" when
\* it is found and differs from what is rendered, "keep" when it is found
\* and does not differ.  A failing call fails for every rendering of the
\* key; after a write that succeeded the live object is as rendered.
Decision(objs, n, cl, faults) ==
    LET k == NewResourceKey(objs[n])
        again == \E m \in 1..(n - 1) : NewResourceKey(objs[m]) = k
    IN IF Fault("preprocess", k) \in faults THEN "skip"
       ELSE IF Fault("get", k) \in faults THEN "lost"
       ELSE IF k \notin DOMAIN cl
       THEN (IF again /\ Fault("create", k) \notin faults THEN "keep" ELSE "create")
       ELSE IF Managed(cl[k]) = Desired(objs[n]) THEN "keep"
       ELSE IF again /\ Fault("patch", k) \notin faults THEN "keep"
       ELSE "patch"

\* the calls that decision asks for: one fetch, then at most one write
CallsFor(decision, k, c) ==
    IF decision = "skip" THEN <<>>
    ELSE IF decision \in {"create", "patch"}
    THEN <<Call("get", k, c), Call(decision, k, c)>>
    ELSE <<Call("get", k, c)>>

RECURSIVE DecidedCalls(_, _, _, _, _)
DecidedCalls(objs, n, cl, faults, c) ==
    IF n = 0 THEN <<>>
    ELSE DecidedCalls(objs, n - 1, cl, faults, c)
            \o CallsFor(Decision(objs, n, cl, faults), NewResourceKey(objs[n]), c)

\* the entry of the key in the status the component had before the step, a
\* new entry when it had none
PriorEntry(prior, k) ==
    LET hits == {i \in DOMAIN prior : prior[i].Resource = k}
    IN IF hits = {} THEN NewStatus(k)
       ELSE prior[CHOOSE i \in hits : \A j \in hits : i <= j]

\* the observed generation of the entry of an object that is kept: the one
\* of the prior entry, which an earlier rendering of the key has set to 1 if
\* it has created the object
KeptGeneration(prior, k, cl) ==
    IF k \notin DOMAIN cl /\ \E i \in DOMAIN prior : prior[i].Resource = k
    THEN 1
    ELSE PriorEntry(prior, k).ObservedGeneration

\* the entries of the new status of the component agree with the decisions:
\* after a create that succeeded the observed generation is 1; for an object
\* that is kept the observed generation is as it was, and the conditions are
\* those of a success
EntriesAsDecided(objs, cl, faults, prior, entries) ==
    \A n \in DOMAIN objs :
        LET k == NewResourceKey(objs[n])
            d == Decision(objs, n, cl, faults)
        IN /\ (d = "create" /\ Fault("create", k) \notin faults)
                 => entries[n].ObservedGeneration = 1
           /\ d = "keep" =>
                 /\ entries[n].ObservedGeneration = KeptGeneration(prior, k, cl)
                 /\ entries[n].Installed = "True"
                 /\ entries[n].Reconciled = "True"

\* the entry of every object that is kept is the prior entry of its key
EntriesUntouched(objs, cl, faults, prior, entries) ==
    \A n \in DOMAIN objs :
        Decision(objs, n, cl, faults) = "keep"
            => entries[n] = PriorEntry(prior, NewResourceKey(objs[n]))

\* a step that processes the manifests of a component
ComponentStep == Len(order') > Len(order) /\ last'.ran

\* C22 (as amended): for each rendered object that passes its pre-process
\* hook, processObject makes one fetch and then at most one write: a create
\* exactly when the object is not found, a patch exactly when it is found
\* and differs from what is rendered, and no write when it is found and does
\* not differ.  A create that succeeds sets the observed generation of the
\* entry to 1.  When nothing is written the observed generation is left as
\* it was, and the conditions of the entry are set as after any success:
\* Installed True and Reconciled True.
C22_Decision ==
    [][ComponentStep =>
          /\ ReconcileCallsOf(SubSeq(log', Len(log) + 1, Len(log')), last'.comp)
                = DecidedCalls(RenderedObjects(last'.comp),
                               Len(RenderedObjects(last'.comp)),
                               cluster, last'.faults, last'.comp)
          /\ EntriesAsDecided(RenderedObjects(last'.comp), cluster, last'.faults,
                              PriorResources(instanceStatus, last'.comp),
                              last'.status.Resources)]_vars

\* C22 as stated: the same, with the entry of an object for which nothing is
\* written left exactly as it was, conditions included.
C22_Original ==
    [][ComponentStep =>
          /\ ReconcileCallsOf(SubSeq(log', Len(log) + 1, Len(log')), last'.comp)
                = DecidedCalls(RenderedObjects(last'.comp),
                               Len(RenderedObjects(last'.comp)),
                               cluster, last'.faults, last'.comp)
          /\ EntriesUntouched(RenderedObjects(last'.comp), cluster, last'.faults,
                              PriorResources(instanceStatus, last'.comp),
                              last'.status.Resources)]_vars

\* C22 case: Galley renders its deployment twice; the first rendering fetches
\* and creates it, which sets the observed generation to 1, the second one
\* fetches it and writes nothing, and its entry has the conditions of a success
C22_Witness ==
    /\ last.ran /\ last.comp = Galley /\ last.faults = {}
    /\ Len(last.status.Resources) >= 3
    /\ last.status.Resources[1].ObservedGeneration = 1
    /\ last.status.Resources[3].Resource = NewResourceKey(galleyDep)
    /\ last.status.Resources[3].ObservedGeneration = 0
    /\ last.status.Resources[3].Reconciled = "True"
    /\ \E i, j \in DOMAIN log :
          /\ i < j
          /\ log[i] = Call("create", NewResourceKey(galleyDep), Galley)
          /\ log[j] = Call("get", NewResourceKey(galleyDep), Galley)
          /\ (j = Len(log) \/ log[j + 1].op \notin {"create", "patch"})

\* the positions of the log at which the status is handed to the API server
PersistAttempts == {i \in DOMAIN log : log[i].op = "updateStatus"}

\* C23: when Reconcile has returned, whichever way the pass has ended, the
\* pass has made exactly one attempt to store the status, and that attempt
\* is its last call: no get, create, patch or delete follows it.
C23_PersistOnceLast ==
    pc = "done" =>
        /\ exit \in {"render", "namespace", "component", "prune", "complete"}
        /\ PersistAttempts = {Len(log)}
        /\ log[Len(log)] = PersistCall

\* C23 case: a pass that a failing delete of the pruner has ended has issued
\* the delete and then, as its last call, the update of the status
C23_Witness ==
    /\ pc = "done" /\ exit = "prune"
    /\ Len(log) >= 2
    /\ log[Len(log) - 1].op = "delete" /\ log[Len(log) - 1].comp = Pruner
    /\ log[Len(log)] = PersistCall

\* C24: a component never issues a delete for a key that it renders in the
\* same pass and that has reached processObject, whatever has failed for
\* the object.
C24_RenderedNotPruned ==
    \A i \in DOMAIN log :
        (log[i].op = "delete" /\ log[i].comp \in DOMAIN renderings)
            => log[i].key \notin ObjectKeys(log[i].comp)

\* C24 case: the patch of the deployment of Security fails; its entry, which
\* an earlier pass has left Installed True, is kept, and no delete is issued
\* for it
C24_Witness ==
    /\ last.ran /\ last.comp = Security
    /\ Fault("patch", NewResourceKey(citadel)) \in last.faults
    /\ \E n \in DOMAIN last.status.Resources :
          /\ last.status.Resources[n].Resource = NewResourceKey(citadel)
          /\ last.status.Resources[n].Installed = "True"
          /\ last.status.Resources[n].Reconciled = "False"
    /\ \A i \in DOMAIN log :
          log[i].key = NewResourceKey(citadel) => log[i].op # "delete"

\* the components among the given ones that have renderings, in order
RenderedAmong(names) == SelectSeq(names, LAMBDA n : n \in DOMAIN renderings)

\* C25: the step of a component appends the status of the component to the
\* new status of the pass exactly when the component has renderings and its
\* readiness hook has returned no error, whatever processManifests has
\* returned.  So when an error of the hook, not-ready included, ends the
\* pass, the status handed to the API server, which is the status stored if
\* the update succeeds, holds the statuses of the components with
\* renderings processed before, in the order of their processing, and none
\* for the component that ended the pass or for a later one.
C25_AppendedIffHookOk ==
    [][Len(order') > Len(order) =>
          /\ last'.ran <=> last'.comp \in DOMAIN renderings
          /\ Status'.ComponentStatus
                = (IF last'.ran /\ last'.hook = Nil
                   THEN Append(Status.ComponentStatus, last'.status)
                   ELSE Status.ComponentStatus)
          /\ (pc' = "done" /\ last'.hook # Nil) =>
                /\ instanceStatus'.ComponentStatus = Status.ComponentStatus
                /\ ComponentNames(instanceStatus') = RenderedAmong(order)
                /\ stored' => persistedStatus' = instanceStatus']_vars

\* C25 case: Security has completed and a later component is not ready: the
\* status stored holds the status of Security and none for that component
C25_Witness ==
    /\ pc = "done" /\ exit = "component" /\ stored
    /\ IsComponentNotReady(last.hook)
    /\ last.comp # Security
    /\ ComponentNames(persistedStatus) = <<Security>>

====
